---- MODULE Spec2Model ----
(***************************************************************************)
(* Model of image-trainer/src-tauri/src/main.rs: the five tauri commands   *)
(* and run_python, the interpreter fallback they share.                    *)
(*                                                                         *)
(* A text is a sequence of fragments.  A fragment is one character, except *)
(* that a literal of a format string or of a path component is kept whole  *)
(* ("GPU detection failed: ", "check_gpu.py").  Concatenation is \o.       *)
(***************************************************************************)
EXTENDS Integers, Sequences, FiniteSets, TLC

\* ------------------------------------------------------------------ bounds

\* Concurrent command invocations in ConcSpec.
NumCalls == 2
\* Longest text a child process prints in FacadeSpec.
MaxLen == 5

Calls == 1..NumCalls

\* ------------------------------------------------------------ value shapes

None == [some |-> FALSE, val |-> <<>>]
Some(v) == [some |-> TRUE, val |-> v]

NoCode == [some |-> FALSE, val |-> 0]
Code(n) == [some |-> TRUE, val |-> n]

Ok(t) == [tag |-> "Ok", text |-> t]
Err(t) == [tag |-> "Err", text |-> t]
Pending == [tag |-> "Pending", text |-> <<>>]

\* What `.output().await` yields for one candidate: Err(e), or Ok(output)
\* with the exit status and the two streams as from_utf8_lossy decodes them.
LaunchError(e) ==
    [kind |-> "launch_error", err |-> e, code |-> NoCode, stdout |-> <<>>, stderr |-> <<>>]
Output(code, out, err) ==
    [kind |-> "exit", err |-> <<>>, code |-> code, stdout |-> out, stderr |-> err]

\* ------------------------------------------------------------- text helpers

\* char::is_whitespace, on the characters the model draws.
WhiteSpace == {" ", "\n", "\t", "\r"}

RECURSIVE TrimStart(_)
TrimStart(s) ==
    IF s = <<>> THEN s
    ELSE IF Head(s) \in WhiteSpace THEN TrimStart(Tail(s)) ELSE s

RECURSIVE TrimEnd(_)
TrimEnd(s) ==
    IF s = <<>> THEN s
    ELSE IF s[Len(s)] \in WhiteSpace THEN TrimEnd(SubSeq(s, 1, Len(s) - 1)) ELSE s

\* Faulty variant: trailing whitespace is kept.
TrimStartOnly(s) == TrimStart(s)

\* str::trim
Trim(s) == TrimEnd(TrimStart(s))

\* str::replace: every non-overlapping match of pat, left to right.
RECURSIVE Replace(_, _, _)
Replace(s, pat, rep) ==
    IF Len(s) < Len(pat) THEN s
    ELSE IF SubSeq(s, 1, Len(pat)) = pat
         THEN rep \o Replace(SubSeq(s, Len(pat) + 1, Len(s)), pat, rep)
         ELSE <<Head(s)>> \o Replace(Tail(s), pat, rep)

DigitChars == <<"0", "1", "2", "3", "4", "5", "6", "7", "8", "9">>

RECURSIVE Digits(_)
Digits(n) ==
    IF n < 10 THEN <<DigitChars[n + 1]>>
    ELSE Digits(n \div 10) \o <<DigitChars[(n % 10) + 1]>>

\* Display of an i32.
FormatInt(n) == IF n < 0 THEN <<"-">> \o Digits(0 - n) ELSE Digits(n)

\* ----------------------------------------------------------------- run_python

cmds == <<"python", "python3", "py">>

\* Faulty variant: any exit code counts as success.
SuccessAnyCode(code) == code.some

\* ExitStatus::success
Success(code) == code.some /\ code.val = 0

UnwrapOr(code, d) == IF code.some THEN code.val ELSE d

ExitedWithCode(code) == <<"Exited with code: ">> \o FormatInt(UnwrapOr(code, -1))

\* Faulty variant: stdout is preferred to stderr.
MsgStdoutFirst(o) ==
    IF Trim(o.stdout) /= <<>> THEN o.stdout
    ELSE IF Trim(o.stderr) /= <<>> THEN o.stderr
    ELSE ExitedWithCode(o.code)

\* The message recorded for a candidate that ran and failed.
Msg(o) ==
    IF Trim(o.stderr) /= <<>> THEN o.stderr
    ELSE IF Trim(o.stdout) /= <<>> THEN o.stdout
    ELSE ExitedWithCode(o.code)

\* Faulty variant: the first error is kept.
KeepFirstErr(old, msg) == IF old = <<>> THEN msg ELSE old

\* last_err = msg
RecordErr(old, msg) == msg

\* Faulty variant: the loop gives up after the first candidate.
StopAfterFirst(k) == k > 1

\* The for loop over cmds has run out.
LoopDone(k) == k > Len(cmds)

\* Faulty variant: the failed candidate is tried again.
RetrySame(k) == k

\* The loop's step to the next candidate.
NextCandidate(k) == k + 1

\* ------------------------------------------------------------ the commands

VerbatimPrefix == <<"\\", "\\", "?", "\\">>

\* resource_dir().join("python_backend").join(name), to_string_lossy,
\* replace("\\\\?\\", "")
ScriptPath(dir, name) ==
    Replace(dir \o <<"/", "python_backend", "/", name>>, VerbatimPrefix, <<>>)

\* Faulty variant: --out is pushed before --params.
TabularArgsOutFirst(script, action, file, params, out) ==
    <<script, <<"--action">>, action, <<"--file">>, file>>
        \o (IF out.some THEN << <<"--out">>, out.val >> ELSE <<>>)
        \o (IF params.some THEN << <<"--params">>, params.val >> ELSE <<>>)

TabularArgs(script, action, file, params, out) ==
    <<script, <<"--action">>, action, <<"--file">>, file>>
        \o (IF params.some THEN << <<"--params">>, params.val >> ELSE <<>>)
        \o (IF out.some THEN << <<"--out">>, out.val >> ELSE <<>>)

PredictionArgs(script, image, model_path, model_type, classes) ==
    <<script, <<"--image">>, image, <<"--model_path">>, model_path,
      <<"--model_type">>, model_type, <<"--classes">>, classes>>

DependencyScript == <<"import sys, json, importlib.util; ...">>

QUOTE == "\""
BACKSLASH == "\\"

\* Faulty variant: newlines are left in.
SanitizeQuotesOnly(e) == Replace(e, <<QUOTE>>, <<BACKSLASH, QUOTE>>)

\* e.replace("\"", "\\\"").replace("\n", " ")
Sanitize(e) == Replace(Replace(e, <<QUOTE>>, <<BACKSLASH, QUOTE>>), <<"\n">>, <<" ">>)

\* The format string up to the {}: one fragment per member, the opening
\* quote of the error string last.
ErrorJsonHead ==
    <<"{", "\"python\": false", ", ", "\"version\": null", ", ",
      "\"pandas\": false", ", ", "\"sklearn\": false", ", ", "\"torch\": false", ", ",
      "\"timm\": false", ", ", "\"optuna\": false", ", ", "\"error\": ", QUOTE>>

\* The format! of check_dependencies' Err arm.
ErrorJson(e) == ErrorJsonHead \o Sanitize(e) \o <<QUOTE, "}">>

GpuLabel == "GPU detection failed: "
SystemInfoLabel == "System info failed: "
PredictionLabel == "Prediction failed: "

\* Faulty variant: the error is passed on without the label.
PredictionRespondsUnlabelled(r) ==
    IF r.tag = "Ok" THEN Ok(Trim(r.text)) ELSE Err(r.text)

RespondTabular(r) == r

RespondGpu(r) ==
    IF r.tag = "Ok" THEN Ok(Trim(r.text)) ELSE Err(<<GpuLabel>> \o r.text)

RespondSystemInfo(r) ==
    IF r.tag = "Ok" THEN Ok(Trim(r.text)) ELSE Err(<<SystemInfoLabel>> \o r.text)

RespondDependencies(r) ==
    IF r.tag = "Ok" THEN Ok(Trim(r.text)) ELSE Ok(ErrorJson(r.text))

RespondPrediction(r) ==
    IF r.tag = "Ok" THEN Ok(Trim(r.text)) ELSE Err(<<PredictionLabel>> \o r.text)

\* What each command makes of run_python's result.
Respond(name, r) ==
    CASE name = "run_tabular_processor" -> RespondTabular(r)
      [] name = "run_check_gpu" -> RespondGpu(r)
      [] name = "get_system_info" -> RespondSystemInfo(r)
      [] name = "check_dependencies" -> RespondDependencies(r)
      [] name = "run_prediction" -> RespondPrediction(r)

\* --------------------------------------------------------------------- state

VARIABLES
    pc,        \* where each invocation is: idle, loop, await, returned, done
    command,   \* the command invoked
    request,   \* its inputs
    args,      \* the args handed to run_python
    cursor,    \* position of the for loop in cmds
    last_err,  \* run_python's last_err
    ret,       \* run_python's return value
    result,    \* the command's return value
    alive,     \* the invocation's child processes that run
    launched,  \* every .command(cmd).args(args).output() made, in order
    tried      \* what each of them yielded, in order

vars == <<pc, command, request, args, cursor, last_err, ret, result, alive, launched, tried>>

NoRequest ==
    [dir |-> Ok(<<>>), file |-> <<>>, action |-> <<>>, params |-> None, out |-> None,
     image |-> <<>>, model_path |-> <<>>, model_type |-> <<>>, classes |-> <<>>]

Init ==
    /\ pc = [c \in Calls |-> "idle"]
    /\ command = [c \in Calls |-> "none"]
    /\ request = [c \in Calls |-> NoRequest]
    /\ args = [c \in Calls |-> <<>>]
    /\ cursor = [c \in Calls |-> 1]
    /\ last_err = [c \in Calls |-> <<>>]
    /\ ret = [c \in Calls |-> Pending]
    /\ result = [c \in Calls |-> Pending]
    /\ alive = [c \in Calls |-> {}]
    /\ launched = [c \in Calls |-> <<>>]
    /\ tried = [c \in Calls |-> <<>>]

\* ------------------------------------------------------------------- actions

\* Each command is invoked with request r: resource_dir() fails and `?`
\* returns its error, or the script path resolves and run_python is called.

run_tabular_processor(c, reqs) ==
    \E r \in reqs :
        /\ pc[c] = "idle"
        /\ command' = [command EXCEPT ![c] = "run_tabular_processor"]
        /\ request' = [request EXCEPT ![c] = r]
        /\ IF r.dir.tag = "Ok"
           THEN /\ args' = [args EXCEPT ![c] =
                                TabularArgs(ScriptPath(r.dir.text, "tabular_processor.py"),
                                            r.action, r.file, r.params, r.out)]
                /\ pc' = [pc EXCEPT ![c] = "loop"]
                /\ UNCHANGED result
           ELSE /\ result' = [result EXCEPT ![c] = Err(r.dir.text)]
                /\ pc' = [pc EXCEPT ![c] = "done"]
                /\ UNCHANGED args
        /\ UNCHANGED <<cursor, last_err, ret, alive, launched, tried>>

run_check_gpu(c, reqs) ==
    \E r \in reqs :
        /\ pc[c] = "idle"
        /\ command' = [command EXCEPT ![c] = "run_check_gpu"]
        /\ request' = [request EXCEPT ![c] = r]
        /\ IF r.dir.tag = "Ok"
           THEN /\ args' = [args EXCEPT ![c] =
                                <<ScriptPath(r.dir.text, "check_gpu.py")>>]
                /\ pc' = [pc EXCEPT ![c] = "loop"]
                /\ UNCHANGED result
           ELSE /\ result' = [result EXCEPT ![c] = Err(r.dir.text)]
                /\ pc' = [pc EXCEPT ![c] = "done"]
                /\ UNCHANGED args
        /\ UNCHANGED <<cursor, last_err, ret, alive, launched, tried>>

get_system_info(c, reqs) ==
    \E r \in reqs :
        /\ pc[c] = "idle"
        /\ command' = [command EXCEPT ![c] = "get_system_info"]
        /\ request' = [request EXCEPT ![c] = r]
        /\ IF r.dir.tag = "Ok"
           THEN /\ args' = [args EXCEPT ![c] =
                                <<ScriptPath(r.dir.text, "system_info.py")>>]
                /\ pc' = [pc EXCEPT ![c] = "loop"]
                /\ UNCHANGED result
           ELSE /\ result' = [result EXCEPT ![c] = Err(r.dir.text)]
                /\ pc' = [pc EXCEPT ![c] = "done"]
                /\ UNCHANGED args
        /\ UNCHANGED <<cursor, last_err, ret, alive, launched, tried>>

\* check_dependencies resolves no path: it runs the interpreter on -c script.
check_dependencies(c) ==
    /\ pc[c] = "idle"
    /\ command' = [command EXCEPT ![c] = "check_dependencies"]
    /\ args' = [args EXCEPT ![c] = << <<"-c">>, DependencyScript >>]
    /\ pc' = [pc EXCEPT ![c] = "loop"]
    /\ UNCHANGED <<request, cursor, last_err, ret, result, alive, launched, tried>>

run_prediction(c, reqs) ==
    \E r \in reqs :
        /\ pc[c] = "idle"
        /\ command' = [command EXCEPT ![c] = "run_prediction"]
        /\ request' = [request EXCEPT ![c] = r]
        /\ IF r.dir.tag = "Ok"
           THEN /\ args' = [args EXCEPT ![c] =
                                PredictionArgs(ScriptPath(r.dir.text, "predict.py"),
                                               r.image, r.model_path, r.model_type, r.classes)]
                /\ pc' = [pc EXCEPT ![c] = "loop"]
                /\ UNCHANGED result
           ELSE /\ result' = [result EXCEPT ![c] = Err(r.dir.text)]
                /\ pc' = [pc EXCEPT ![c] = "done"]
                /\ UNCHANGED args
        /\ UNCHANGED <<cursor, last_err, ret, alive, launched, tried>>

\* .output().await returns Err(e): the candidate could not be launched.
SpawnFails(c, env) ==
    /\ pc[c] = "loop"
    /\ ~LoopDone(cursor[c])
    /\ \E o \in env[cursor[c]] :
        /\ o.kind = "launch_error"
        /\ launched' = [launched EXCEPT ![c] = Append(@, [cmd |-> cmds[cursor[c]], args |-> args[c]])]
        /\ tried' = [tried EXCEPT ![c] = Append(@, o)]
        /\ last_err' = [last_err EXCEPT ![c] = RecordErr(@, o.err)]
        /\ cursor' = [cursor EXCEPT ![c] = NextCandidate(@)]
    /\ UNCHANGED <<pc, command, request, args, ret, result, alive>>

\* .output() launches the candidate; the invocation awaits its exit.
Spawn(c, env) ==
    /\ pc[c] = "loop"
    /\ ~LoopDone(cursor[c])
    /\ \E o \in env[cursor[c]] : o.kind = "exit"
    /\ launched' = [launched EXCEPT ![c] = Append(@, [cmd |-> cmds[cursor[c]], args |-> args[c]])]
    /\ alive' = [alive EXCEPT ![c] = @ \cup {cursor[c]}]
    /\ pc' = [pc EXCEPT ![c] = "await"]
    /\ UNCHANGED <<command, request, args, cursor, last_err, ret, result, tried>>

\* The child exits and .output().await returns Ok(output).
Exit(c, env) ==
    /\ pc[c] = "await"
    /\ \E o \in env[cursor[c]] :
        /\ o.kind = "exit"
        /\ alive' = [alive EXCEPT ![c] = @ \ {cursor[c]}]
        /\ tried' = [tried EXCEPT ![c] = Append(@, o)]
        /\ IF Success(o.code)
           THEN /\ ret' = [ret EXCEPT ![c] = Ok(o.stdout)]
                /\ pc' = [pc EXCEPT ![c] = "returned"]
                /\ UNCHANGED <<last_err, cursor>>
           ELSE /\ last_err' = [last_err EXCEPT ![c] = RecordErr(@, Msg(o))]
                /\ cursor' = [cursor EXCEPT ![c] = NextCandidate(@)]
                /\ pc' = [pc EXCEPT ![c] = "loop"]
                /\ UNCHANGED ret
    /\ UNCHANGED <<command, request, args, result, launched>>

\* The loop ends without a return: Err(last_err).
Exhausted(c) ==
    /\ pc[c] = "loop"
    /\ LoopDone(cursor[c])
    /\ ret' = [ret EXCEPT ![c] = Err(last_err[c])]
    /\ pc' = [pc EXCEPT ![c] = "returned"]
    /\ UNCHANGED <<command, request, args, cursor, last_err, result, alive, launched, tried>>

\* The command's match on run_python's result.
Return(c) ==
    /\ pc[c] = "returned"
    /\ result' = [result EXCEPT ![c] = Respond(command[c], ret[c])]
    /\ pc' = [pc EXCEPT ![c] = "done"]
    /\ UNCHANGED <<command, request, args, cursor, last_err, ret, alive, launched, tried>>

\* -------------------------------------------------------------- environments

\* The characters a child process prints.
Alphabet == {"a", " ", "\n", QUOTE, BACKSLASH}

TextsUpTo(n) == UNION {[1..k -> Alphabet] : k \in 0..n}

NotFound == <<"program not found">>

PlainDir == <<"/res">>
VerbatimDir == VerbatimPrefix \o <<"C:", "/", "res">>
DirError == <<"unknown path">>

RequestsOver(dirs, paramss, outs) ==
    [dir : dirs, file : {<<"/data/x.csv">>}, action : {<<"describe">>},
     params : paramss, out : outs,
     image : {<<"cat.png">>}, model_path : {<<"m.pth">>}, model_type : {<<"resnet18">>},
     classes : {<<"cat,dog">>}]

\* Spec: one invocation; every candidate may fail to launch or exit with
\* any of these codes and outputs.
StdoutSamples == {<<>>, <<"\n">>, <<" ", "o", "\n">>}
StderrSamples == {<<>>, <<" ">>, <<"e", "\n">>}
ExitCodes == {Code(0), Code(101), NoCode}

SpecEnv ==
    [k \in DOMAIN cmds |->
        {LaunchError(NotFound)}
            \cup {Output(code, o, e) : code \in ExitCodes, o \in StdoutSamples, e \in StderrSamples}]

SpecRequests == RequestsOver({Ok(PlainDir), Err(DirError)}, {None}, {Some(<<"/out.csv">>)})

\* FacadeSpec: python and python3 are not installed; py cannot be launched
\* either, or prints any text of up to MaxLen characters: on stdout when it
\* succeeds, on stderr when it fails.
FacadeEnv ==
    [k \in DOMAIN cmds |->
        IF k < Len(cmds) THEN {LaunchError(NotFound)}
        ELSE {LaunchError(NotFound)}
                \cup {Output(Code(0), t, <<>>) : t \in TextsUpTo(MaxLen)}
                \cup {Output(Code(127), <<>>, t) : t \in TextsUpTo(MaxLen)}]

FacadeRequests == RequestsOver({Ok(PlainDir), Err(DirError)}, {Some(<<"{}">>)}, {None})

\* ArgsSpec and LiveSpec: one invocation with every shape of request.
ArgsRequests ==
    RequestsOver({Ok(PlainDir), Ok(VerbatimDir), Err(DirError)},
                 {None, Some(<<"{}">>), Some(<<"--out">>)},
                 {None, Some(<<"/out.csv">>)})

\* ConcSpec: NumCalls invocations interleave; each candidate fails to
\* launch, succeeds or fails.
ConcEnv ==
    [k \in DOMAIN cmds |->
        {LaunchError(NotFound), Output(Code(0), <<"o">>, <<>>), Output(Code(1), <<>>, <<"e">>)}]

ConcRequests == RequestsOver({Ok(PlainDir)}, {None}, {None})

\* ------------------------------------------------------------ specifications

\* The steps of run_python and of the command's match on its result.
Step(c, env) ==
    \/ SpawnFails(c, env)
    \/ Spawn(c, env)
    \/ Exit(c, env)
    \/ Exhausted(c)
    \/ Return(c)

Next ==
    \/ run_tabular_processor(1, SpecRequests)
    \/ run_check_gpu(1, SpecRequests)
    \/ get_system_info(1, SpecRequests)
    \/ check_dependencies(1)
    \/ run_prediction(1, SpecRequests)
    \/ Step(1, SpecEnv)

Spec == Init /\ [][Next]_vars

FacadeNext ==
    \/ run_tabular_processor(1, FacadeRequests)
    \/ run_check_gpu(1, FacadeRequests)
    \/ get_system_info(1, FacadeRequests)
    \/ check_dependencies(1)
    \/ run_prediction(1, FacadeRequests)
    \/ Step(1, FacadeEnv)

FacadeSpec == Init /\ [][FacadeNext]_vars

ConcNext ==
    \E c \in Calls :
        \/ run_check_gpu(c, ConcRequests)
        \/ check_dependencies(c)
        \/ Step(c, ConcEnv)

ConcSpec == Init /\ [][ConcNext]_vars

ArgsNext ==
    \/ run_tabular_processor(1, ArgsRequests)
    \/ run_check_gpu(1, ArgsRequests)
    \/ get_system_info(1, ArgsRequests)
    \/ check_dependencies(1)
    \/ run_prediction(1, ArgsRequests)
    \/ Step(1, ConcEnv)

ArgsSpec == Init /\ [][ArgsNext]_vars

\* The same under the scheduling the runtime gives: a ready future is
\* polled, and every launched process exits.
LiveSpec == ArgsSpec /\ WF_vars(Step(1, ConcEnv))

\* ---------------------------------------------------------------- properties

\* The process ran and exited with status 0.
Succeeded(o) == o.kind = "exit" /\ o.code = Code(0)

NonBlank(t) == \E i \in DOMAIN t : t[i] \notin WhiteSpace

\* C1: as soon as a candidate exits with success, run_python has returned
\* Ok with exactly that candidate's stdout, every earlier candidate has
\* failed, and no later candidate is launched; Ok is returned for no other
\* reason.
C1_FirstSuccessAccepted ==
    \A c \in Calls :
        /\ \A k \in 1..Len(tried[c]) :
              Succeeded(tried[c][k]) =>
                  /\ ret[c] = Ok(tried[c][k].stdout)
                  /\ Len(launched[c]) = k
                  /\ alive[c] = {}
                  /\ \A j \in 1..(k - 1) : ~Succeeded(tried[c][j])
        /\ ret[c].tag = "Ok" => \E k \in 1..Len(tried[c]) : Succeeded(tried[c][k])

\* python fails, python3 succeeds printing nothing, py is never launched.
C1_Witness ==
    /\ pc[1] = "done"
    /\ Len(tried[1]) = 2
    /\ tried[1][1].kind = "exit"
    /\ Succeeded(tried[1][2])
    /\ ret[1] = Ok(<<>>)

\* The error a failed candidate leaves: the launch error's text, or the
\* message chosen from the output.
RecordedFor(o) == IF o.kind = "launch_error" THEN o.err ELSE Msg(o)

\* C2: when all three candidates have failed, run_python returns Err with
\* the error of the last candidate, py.
C2_RejectedWithLastError ==
    \A c \in Calls :
        ( /\ pc[c] \in {"returned", "done"}
          /\ Len(tried[c]) = Len(cmds)
          /\ \A k \in 1..Len(cmds) : ~Succeeded(tried[c][k]) )
        => ret[c] = Err(RecordedFor(tried[c][Len(cmds)]))

\* python ran and failed, py could not be launched, and their errors differ.
C2_Witness ==
    /\ pc[1] = "done"
    /\ ret[1].tag = "Err"
    /\ tried[1][1].kind = "exit"
    /\ tried[1][3].kind = "launch_error"
    /\ RecordedFor(tried[1][1]) /= RecordedFor(tried[1][3])
    /\ ret[1].text = NotFound

\* One character of the failure text as the error field shows it.
EscapedChar(ch) ==
    IF ch = QUOTE THEN <<BACKSLASH, QUOTE>> ELSE IF ch = "\n" THEN <<" ">> ELSE <<ch>>

RECURSIVE Escaped(_)
Escaped(e) == IF e = <<>> THEN <<>> ELSE EscapedChar(Head(e)) \o Escaped(Tail(e))

FalseMembers ==
    {"\"python\": false", "\"pandas\": false", "\"sklearn\": false", "\"torch\": false",
     "\"timm\": false", "\"optuna\": false"}

\* C3: check_dependencies returns Ok whatever run_python returned; after
\* Err(e) the payload reports python and the five capabilities false and
\* ends in the error member, whose string holds e with each double quote
\* preceded by a backslash and each newline turned into a space.
C3_ProbeAlwaysOk ==
    \A c \in Calls :
        (command[c] = "check_dependencies" /\ pc[c] = "done") =>
            /\ result[c].tag = "Ok"
            /\ ret[c].tag = "Err" =>
                  LET p == result[c].text
                      n == Len(p)
                      h == n - Len(Escaped(ret[c].text)) - 2
                  IN  /\ h > 2
                      /\ \A m \in FalseMembers : \E i \in 1..(h - 2) : p[i] = m
                      /\ p[1] = "{"
                      /\ p[h - 1] = "\"error\": "
                      /\ p[h] = QUOTE
                      /\ SubSeq(p, h + 1, n - 2) = Escaped(ret[c].text)
                      /\ p[n - 1] = QUOTE
                      /\ p[n] = "}"

\* Every candidate failed with a text that holds a quote and a newline.
C3_Witness ==
    /\ command[1] = "check_dependencies"
    /\ pc[1] = "done"
    /\ ret[1].tag = "Err"
    /\ \E i, j \in DOMAIN ret[1].text : ret[1].text[i] = QUOTE /\ ret[1].text[j] = "\n"

\* The two-character escapes of a JSON string (\u is left out: the
\* alphabet has no u).
JsonEscapes == {QUOTE, BACKSLASH, "/", "b", "f", "n", "r", "t"}
ControlChars == {"\n", "\t", "\r"}

\* The index of the quote that closes the JSON string whose content starts
\* at p[i]; 0 if the string holds a raw control character or a bad escape,
\* or never closes.
RECURSIVE StringEnd(_, _)
StringEnd(p, i) ==
    IF i > Len(p) THEN 0
    ELSE IF p[i] = QUOTE THEN i
    ELSE IF p[i] = BACKSLASH
         THEN IF i + 1 <= Len(p) /\ p[i + 1] \in JsonEscapes THEN StringEnd(p, i + 2) ELSE 0
    ELSE IF p[i] \in ControlChars THEN 0
    ELSE StringEnd(p, i + 1)

WellFormedReport(p) ==
    /\ Len(p) >= Len(ErrorJsonHead) + 2
    /\ SubSeq(p, 1, Len(ErrorJsonHead)) = ErrorJsonHead
    /\ StringEnd(p, Len(ErrorJsonHead) + 1) = Len(p) - 1
    /\ p[Len(p)] = "}"

\* C4: the report check_dependencies builds after Err(e) is well-formed
\* JSON: the error string closes at the payload's last quote and holds no
\* raw control character and no invalid or dangling escape.
C4_WellFormedReport ==
    \A c \in Calls :
        (command[c] = "check_dependencies" /\ pc[c] = "done" /\ ret[c].tag = "Err") =>
            WellFormedReport(result[c].text)

HardFailing == {"run_tabular_processor", "run_check_gpu", "get_system_info", "run_prediction"}

\* C5 as claimed: each of the four commands answers Err(e) with an error
\* that is e behind a non-empty label.
C5_EveryErrorLabelled ==
    \A c \in Calls :
        (command[c] \in HardFailing /\ pc[c] = "done" /\ ret[c].tag = "Err") =>
            LET t == result[c].text
                e == ret[c].text
            IN  /\ result[c].tag = "Err"
                /\ Len(t) > Len(e)
                /\ SubSeq(t, Len(t) - Len(e) + 1, Len(t)) = e

\* C5: run_check_gpu, get_system_info and run_prediction answer Err(e) with
\* e behind their own label; run_tabular_processor answers with e itself.
C5_ErrorLabels ==
    \A c \in Calls :
        (pc[c] = "done" /\ ret[c].tag = "Err") =>
            LET e == ret[c].text
            IN  /\ command[c] = "run_check_gpu" =>
                      result[c] = Err(<<"GPU detection failed: ">> \o e)
                /\ command[c] = "get_system_info" =>
                      result[c] = Err(<<"System info failed: ">> \o e)
                /\ command[c] = "run_prediction" =>
                      result[c] = Err(<<"Prediction failed: ">> \o e)
                /\ command[c] = "run_tabular_processor" => result[c] = Err(e)

C5_Witness ==
    /\ command[1] = "run_prediction"
    /\ pc[1] = "done"
    /\ ret[1].tag = "Err"
    /\ NonBlank(ret[1].text)
    /\ result[1].text[1] = "Prediction failed: "

\* t is s without its leading and trailing whitespace, the rest unchanged.
IsTrimOf(t, s) ==
    \E i \in 0..Len(s) : \E j \in i..Len(s) :
        /\ t = SubSeq(s, i + 1, j)
        /\ \A k \in 1..i : s[k] \in WhiteSpace
        /\ \A k \in (j + 1)..Len(s) : s[k] \in WhiteSpace
        /\ t /= <<>> => (t[1] \notin WhiteSpace /\ t[Len(t)] \notin WhiteSpace)

\* C6 as claimed: every command answers Ok(s) with s trimmed.
C6_EveryPayloadTrimmed ==
    \A c \in Calls :
        (pc[c] = "done" /\ ret[c].tag = "Ok") =>
            (result[c].tag = "Ok" /\ IsTrimOf(result[c].text, ret[c].text))

\* C6: run_check_gpu, get_system_info, check_dependencies and
\* run_prediction answer Ok(s) with s trimmed at both ends;
\* run_tabular_processor answers with s as it is.
C6_PayloadTrimmedButTabular ==
    \A c \in Calls :
        (pc[c] = "done" /\ ret[c].tag = "Ok") =>
            IF command[c] = "run_tabular_processor"
            THEN result[c] = Ok(ret[c].text)
            ELSE result[c].tag = "Ok" /\ IsTrimOf(result[c].text, ret[c].text)

\* A probe's output has whitespace at both ends and inside.
C6_Witness ==
    /\ command[1] = "run_check_gpu"
    /\ pc[1] = "done"
    /\ ret[1] = Ok(<<"\n", "a", " ", "a", " ">>)
    /\ result[1] = Ok(<<"a", " ", "a">>)

\* The decimal text of the exit codes the environment produces.
CodeText(code) ==
    IF code = NoCode THEN <<"-", "1">>
    ELSE IF code = Code(101) THEN <<"1", "0", "1">>
    ELSE IF code = Code(127) THEN <<"1", "2", "7">>
    ELSE <<"1">>

FailedExit(o) == o.kind = "exit" /\ ~Succeeded(o)

\* C7 as claimed: stderr is recorded whenever it is non-empty, else stdout
\* whenever it is non-empty, else the exit-code message.
C7_NonEmptyWins ==
    \A c \in Calls :
        (tried[c] /= <<>> /\ FailedExit(tried[c][Len(tried[c])])) =>
            LET o == tried[c][Len(tried[c])]
            IN  last_err[c] =
                    IF o.stderr /= <<>> THEN o.stderr
                    ELSE IF o.stdout /= <<>> THEN o.stdout
                    ELSE <<"Exited with code: ">> \o CodeText(o.code)

\* C7: stderr is recorded whenever it holds a character that is not
\* whitespace, else stdout whenever it holds one, else "Exited with code: "
\* and the exit code in decimal, -1 when the process has none.
C7_NonBlankWins ==
    \A c \in Calls :
        (tried[c] /= <<>> /\ FailedExit(tried[c][Len(tried[c])])) =>
            LET o == tried[c][Len(tried[c])]
            IN  last_err[c] =
                    IF NonBlank(o.stderr) THEN o.stderr
                    ELSE IF NonBlank(o.stdout) THEN o.stdout
                    ELSE <<"Exited with code: ">> \o CodeText(o.code)

\* A candidate failed with whitespace on stderr and a message on stdout.
C7_Witness ==
    /\ tried[1] /= <<>>
    /\ LET o == tried[1][Len(tried[1])]
       IN  /\ FailedExit(o)
           /\ o.stderr = <<" ">>
           /\ NonBlank(o.stdout)
           /\ last_err[1] = o.stdout

\* C8: run_tabular_processor hands run_python the script path, --action,
\* action, --file, file, then --params and its value iff params is given,
\* then --out and its value iff out is given; every candidate is launched
\* with exactly these arguments.
C8_TabularArgs ==
    \A c \in Calls :
        (command[c] = "run_tabular_processor" /\ pc[c] /= "idle"
            /\ request[c].dir.tag = "Ok") =>
            LET r == request[c]
                a == args[c]
                base == <<a[1], <<"--action">>, r.action, <<"--file">>, r.file>>
            IN  /\ Len(a) >= 5
                /\ a[1][Len(a[1])] = "tabular_processor.py"
                /\ (~r.params.some /\ ~r.out.some) => a = base
                /\ (r.params.some /\ ~r.out.some) =>
                      a = base \o << <<"--params">>, r.params.val >>
                /\ (~r.params.some /\ r.out.some) =>
                      a = base \o << <<"--out">>, r.out.val >>
                /\ (r.params.some /\ r.out.some) =>
                      a = base \o << <<"--params">>, r.params.val, <<"--out">>, r.out.val >>
                /\ \A k \in 1..Len(launched[c]) : launched[c][k].args = a

\* Both options given, the params value itself looking like a flag, and
\* all three candidates launched.
C8_Witness ==
    /\ command[1] = "run_tabular_processor"
    /\ pc[1] = "done"
    /\ request[1].params = Some(<<"--out">>)
    /\ request[1].out.some
    /\ Len(launched[1]) = 3
    /\ Len(args[1]) = 9

\* C9 (safety): Err is returned only after all three candidates were
\* launched and none exited with success.
C9_RejectedOnlyWhenExhausted ==
    \A c \in Calls :
        ret[c].tag = "Err" =>
            /\ Len(launched[c]) = Len(cmds)
            /\ Len(tried[c]) = Len(cmds)
            /\ alive[c] = {}
            /\ \A k \in 1..Len(cmds) : ~Succeeded(tried[c][k])

\* C9: every invocation of run_python whose processes exit produces an
\* outcome, the outcome never changes once produced, and it is Err only
\* after all candidates were tried in vain.
C9_OneOutcome ==
    /\ []C9_RejectedOnlyWhenExhausted
    /\ [][\A c \in Calls : ret[c] /= Pending => ret'[c] = ret[c]]_vars
    /\ \A c \in Calls : (pc[c] \in {"loop", "await"}) ~> (ret[c] /= Pending)

C9_Witness ==
    /\ pc[1] = "done"
    /\ ret[1].tag = "Err"
    /\ Len(tried[1]) = 3
    /\ tried[1][2].kind = "exit"

\* C10: an invocation launches python, python3, py in this order, each at
\* most once, has at most one child alive, and launches a candidate only
\* after every earlier one has failed to launch or exited with failure.
C10_SequentialInOrder ==
    \A c \in Calls :
        /\ Cardinality(alive[c]) <= 1
        /\ Len(launched[c]) <= Len(cmds)
        /\ \A k \in 1..Len(launched[c]) : launched[c][k].cmd = cmds[k]
        /\ Len(launched[c]) = Len(tried[c]) + Cardinality(alive[c])
        /\ alive[c] \subseteq {Len(launched[c])}
        /\ \A k \in 1..(Len(launched[c]) - 1) : ~Succeeded(tried[c][k])

\* Two invocations each await a child of their own, one its python3 and
\* the other its py.
C10_Witness ==
    /\ alive[1] = {2}
    /\ alive[2] = {3}
    /\ pc[1] = "await"
    /\ pc[2] = "await"

====
